---- MODULE Spec2Model ----
(***************************************************************************)
(* Model of the subtitle acquisition pipeline of bilibili-analyzer:        *)
(*   - the credential cache of utilities.py (load_cached_credentials,      *)
(*     save_credentials, get_browser_cookies, check_credentials),          *)
(*   - download_with_ytdlp of utilities.py,                                *)
(*   - BilibiliClient._format_subtitles, get_video_text_content and        *)
(*     get_all_user_subtitles of bilibili_client.py.                       *)
(*                                                                         *)
(* Texts are sequences of lines; a line is one of a few representative     *)
(* strings.  The empty text is << >>.  Python's None is NoText.            *)
(* External collaborators (platform API, yt-dlp, Whisper, the correction   *)
(* backend, the cookie extractor, the file system write) answer            *)
(* nondeterministically from small sets.                                   *)
(***************************************************************************)
EXTENDS Integers, Sequences, FiniteSets, TLC

\* ------------------------------------------------------------------ bounds
MaxVideos == 2      \* longest video list get_user_videos returns
MaxTmpFiles == 2    \* temporary cookie files created in one process
MaxTime == 31       \* days the clock may advance to
MaxLines == 4       \* longest text handed to a text function on its own

\* ------------------------------------------------------- program constants
TTL == 30           \* 30 * 24 * 3600 seconds, counted in days
OwnerOnly == 384    \* 0o600

VARIABLES
    \* credential cache (utilities.py)
    cred_file,          \* ~/.config/bilibili_analyzer/credentials.json
    cookie_file_cache,  \* _cookie_file_cache: provider -> temp file id
    tmpfiles,           \* temporary cookie files, by id
    now,                \* time.time(), in days
    cred_log,           \* what the last credential call did and returned
    \* video_texts/<bvid>, the working directory of the video being processed
    \* (a pipeline run reads and writes no other directory)
    base_dir,
    \* get_video_text_content: one run
    ppc,                \* position in the pipeline
    cur,                \* bvid of the running pipeline
    subtitles,          \* local variable subtitles
    perr,               \* message of the exception the pipeline raised
    calls,              \* external collaborators invoked by this run, in order
    \* get_all_user_subtitles: one batch run
    bpc,                \* position in the batch
    fetched,            \* list returned by get_user_videos
    videos,             \* local variable videos (after the limit)
    limit,
    browser,
    idx,                \* position of the for loop in videos
    stats,
    all_subtitles,      \* blocks appended so far
    passed,             \* bvids handed to get_video_text_content, in order
    environ,            \* os.environ has the key export_user_subtitles
    batch_ret,          \* what the batch call returned or raised
    \* a text function applied on its own
    fn,                 \* name of the function last applied
    arg,                \* its argument
    result              \* what it returned

cred_vars == <<cred_file, cookie_file_cache, tmpfiles, now, cred_log>>
pipe_vars == <<ppc, cur, subtitles, perr, calls>>
batch_vars == <<bpc, fetched, videos, limit, browser, idx, stats,
                all_subtitles, passed, environ, batch_ret>>
text_vars == <<fn, arg, result>>
vars == <<cred_file, cookie_file_cache, tmpfiles, now, cred_log, base_dir,
          ppc, cur, subtitles, perr, calls,
          bpc, fetched, videos, limit, browser, idx, stats,
          all_subtitles, passed, environ, batch_ret, fn, arg, result>>

\* ------------------------------------------------------------ text values
NoText == [some |-> FALSE, text |-> << >>]

Some(t) == [some |-> TRUE, text |-> t]

\* Python truthiness of an Optional[str]
Truthy(o) == o.some /\ Len(o.text) > 0

\* lines in which the needle occurs as a substring
LinesContaining(needle) ==
    CASE needle = "Whisper Transcript" ->
            {"## Whisper Transcript (Corrected)", "## Whisper Transcript"}
      [] needle = "yt-dlp" -> {"downloaded with yt-dlp"}
      [] needle = "Authentication required" ->
            {"Authentication required to download subtitles for "}
      [] needle = "CORRECTED_TRANSCRIPT:" -> {"CORRECTED_TRANSCRIPT:"}
      [] needle = "KEY_CORRECTIONS:" -> {"KEY_CORRECTIONS:"}
      [] OTHER -> {}

\* needle in text
Contains(t, needle) == \E i \in 1..Len(t) : t[i] \in LinesContaining(needle)

\* ------------------------------------------------------- credential cache
NoBrowser == ""

Providers == {"chrome", "firefox"}

\* days the clock advances by between two calls
TickSteps == {30, 31}

\* cred_log: the last call of the credential cache, whether it invoked the
\* cookie extractor, what the extractor or the record lookup gave, and what the
\* call returned (path 0 is None); n flips at each call
NoCall == [op |-> "none", browser |-> NoBrowser, force |-> FALSE,
           extractor |-> FALSE, path |-> 0, found |-> FALSE,
           cookies |-> {}, n |-> 0]

CookieNames == {"SESSDATA", "bili_jct", "buvid3"}

\* a cookie dict is a set of <<name, value>> pairs
NoCookies == {}

CookiesA == {<<"SESSDATA", "s1">>, <<"bili_jct", "">>}

CookiesB == {<<"SESSDATA", "s2">>}

\* what get_bilibili_cookies can return: {} on failure
ExtractorReplies == {NoCookies, CookiesA, CookiesB}

\* the browser profile during one batch run: logged out, or logged in
BatchExtractorReplies == {NoCookies, CookiesA}

NoCreds == [p \in {} |-> [cookies |-> NoCookies, timestamp |-> 0]]

AbsentCredFile == [exists |-> FALSE, mode |-> 0, creds |-> NoCreds]

\* the Netscape cookie lines written for a cookie dict
CookieLines(cookies) ==
    {c \in cookies : c[1] \in CookieNames /\ c[2] # ""}

\* faulty variant: a record of exactly the TTL's age counts as expired
ExpiredAtTTL(timestamp) == (now - timestamp) >= TTL

\* (time.time() - timestamp) > 30 * 24 * 3600
Expired(timestamp) == (now - timestamp) > TTL

\* load_cached_credentials(browser): the cookies, or None
LoadCachedCredentials(b) ==
    IF ~cred_file.exists THEN [some |-> FALSE, cookies |-> NoCookies]
    ELSE IF b \notin DOMAIN cred_file.creds
         THEN [some |-> FALSE, cookies |-> NoCookies]
    ELSE IF Expired(cred_file.creds[b].timestamp)
         THEN [some |-> FALSE, cookies |-> NoCookies]
    ELSE [some |-> TRUE, cookies |-> cred_file.creds[b].cookies]

\* load_cached_credentials(): every record, {} without a file
LoadAllCredentials == IF cred_file.exists THEN cred_file.creds ELSE NoCreds

\* faulty variant: the records that have expired are dropped from the file
SaveCredentialsPurging(b, cookies, write_ok) ==
    LET old == LoadAllCredentials
        live == {p \in DOMAIN old : ~Expired(old[p].timestamp)}
        creds == [p \in live \cup {b} |->
                     IF p = b THEN [cookies |-> cookies, timestamp |-> now]
                     ELSE old[p]]
    IN IF write_ok
       THEN [exists |-> TRUE, mode |-> OwnerOnly, creds |-> creds]
       ELSE cred_file

\* faulty variant: the new cookies are merged into the old record
SaveCredentialsMerging(b, cookies, write_ok) ==
    LET old == LoadAllCredentials
        kept == IF b \in DOMAIN old THEN old[b].cookies ELSE NoCookies
        creds == [p \in (DOMAIN old) \cup {b} |->
                     IF p = b THEN [cookies |-> cookies \cup kept,
                                    timestamp |-> now]
                     ELSE old[p]]
    IN IF write_ok
       THEN [exists |-> TRUE, mode |-> OwnerOnly, creds |-> creds]
       ELSE cred_file

\* save_credentials(browser, cookies): the file after the call
SaveCredentials(b, cookies, write_ok) ==
    LET old == LoadAllCredentials
        creds == [p \in (DOMAIN old) \cup {b} |->
                     IF p = b THEN [cookies |-> cookies, timestamp |-> now]
                     ELSE old[p]]
    IN IF write_ok
       THEN [exists |-> TRUE, mode |-> OwnerOnly, creds |-> creds]
       ELSE cred_file

\* faulty variant: the cached path is not checked for existence
MemoryHitUnchecked(cache, b) == b \in DOMAIN cache

\* the in-memory entry of a provider can be returned
MemoryHit(cache, b) ==
    b \in DOMAIN cache /\ tmpfiles[cache[b]].exists

\* faulty variant: the age of the record is not looked at
DiskHitAnyAge(b) ==
    /\ cred_file.exists
    /\ b \in DOMAIN cred_file.creds
    /\ cred_file.creds[b].cookies # NoCookies

\* faulty variant: the comparison with the TTL is inverted
DiskHitInverted(b) ==
    /\ cred_file.exists
    /\ b \in DOMAIN cred_file.creds
    /\ cred_file.creds[b].cookies # NoCookies
    /\ (now - cred_file.creds[b].timestamp) > TTL

\* the persisted record of a provider can be materialized
DiskHit(b) ==
    /\ cred_file.exists
    /\ b \in DOMAIN cred_file.creds
    /\ cred_file.creds[b].cookies # NoCookies
    /\ (now - cred_file.creds[b].timestamp) <= TTL

\* tempfile.NamedTemporaryFile(delete=False) with the cookie lines written
NewTmpFile(cookies) == [exists |-> TRUE, lines |-> CookieLines(cookies)]

SetEntry(cache, b, id) ==
    [p \in (DOMAIN cache) \cup {b} |-> IF p = b THEN id ELSE cache[p]]

\* faulty variant: the entry stays in the cache
DropEntryKeeps(cache, b) == cache

\* _cookie_file_cache.pop(browser, None)
DropEntry(cache, b) == [p \in (DOMAIN cache) \ {b} |-> cache[p]]

\* faulty variant: a failed save makes the call return None
GetBrowserCookiesSaveChecked(b, force_refresh, extracted, write_ok) ==
    LET cache1 == IF force_refresh /\ b \in DOMAIN cookie_file_cache
                  THEN DropEntry(cookie_file_cache, b)
                  ELSE cookie_file_cache
        id == Len(tmpfiles) + 1
        log(path, ext) == [op |-> "get_browser_cookies", browser |-> b,
                           force |-> force_refresh, extractor |-> ext,
                           path |-> path, found |-> FALSE,
                           cookies |-> IF ext THEN extracted ELSE NoCookies,
                           n |-> 1 - cred_log.n]
    IN IF MemoryHit(cache1, b) /\ ~force_refresh
       THEN /\ cred_log' = log(cache1[b], FALSE)
            /\ now' = now
            /\ UNCHANGED <<cred_file, cookie_file_cache, tmpfiles>>
       ELSE IF ~force_refresh /\ DiskHit(b)
       THEN /\ tmpfiles' = Append(tmpfiles,
                              NewTmpFile(cred_file.creds[b].cookies))
            /\ cookie_file_cache' = SetEntry(cache1, b, id)
            /\ cred_log' = log(id, FALSE)
            /\ UNCHANGED <<cred_file, now>>
       ELSE IF extracted = NoCookies \/ ~write_ok
       THEN /\ cookie_file_cache' = cache1
            /\ cred_log' = log(0, TRUE)
            /\ UNCHANGED <<cred_file, tmpfiles, now>>
       ELSE /\ tmpfiles' = Append(tmpfiles, NewTmpFile(extracted))
            /\ cookie_file_cache' = SetEntry(cache1, b, id)
            /\ cred_file' = SaveCredentials(b, extracted, write_ok)
            /\ cred_log' = log(id, TRUE)
            /\ now' = now

\* get_browser_cookies(browser, force_refresh); path 0 is None
GetBrowserCookies(b, force_refresh, extracted, write_ok) ==
    LET cache1 == IF force_refresh /\ b \in DOMAIN cookie_file_cache
                  THEN DropEntry(cookie_file_cache, b)
                  ELSE cookie_file_cache
        id == Len(tmpfiles) + 1
        log(path, ext) == [op |-> "get_browser_cookies", browser |-> b,
                           force |-> force_refresh, extractor |-> ext,
                           path |-> path, found |-> FALSE,
                           cookies |-> IF ext THEN extracted ELSE NoCookies,
                           n |-> 1 - cred_log.n]
    IN IF MemoryHit(cache1, b) /\ ~force_refresh
       THEN /\ cred_log' = log(cache1[b], FALSE)
            /\ now' = now
            /\ UNCHANGED <<cred_file, cookie_file_cache, tmpfiles>>
       ELSE IF ~force_refresh /\ DiskHit(b)
       THEN /\ tmpfiles' = Append(tmpfiles,
                              NewTmpFile(cred_file.creds[b].cookies))
            /\ cookie_file_cache' = SetEntry(cache1, b, id)
            /\ cred_log' = log(id, FALSE)
            /\ UNCHANGED <<cred_file, now>>
       ELSE IF extracted = NoCookies
       THEN /\ cookie_file_cache' = cache1
            /\ cred_log' = log(0, TRUE)
            /\ UNCHANGED <<cred_file, tmpfiles, now>>
       ELSE /\ tmpfiles' = Append(tmpfiles, NewTmpFile(extracted))
            /\ cookie_file_cache' = SetEntry(cache1, b, id)
            /\ cred_file' = SaveCredentials(b, extracted, write_ok)
            /\ cred_log' = log(id, TRUE)
            /\ now' = now

\* ------------------------------------------- callers of the credential cache
\* a direct call of get_browser_cookies (check_credentials with force_login,
\* _get_user_profile, download_with_ytdlp)
CallGetBrowserCookies ==
    /\ \E b \in Providers, force_refresh \in BOOLEAN,
          extracted \in ExtractorReplies, write_ok \in BOOLEAN :
          GetBrowserCookies(b, force_refresh, extracted, write_ok)
    /\ Len(tmpfiles') <= MaxTmpFiles
    /\ UNCHANGED base_dir
    /\ UNCHANGED pipe_vars
    /\ UNCHANGED batch_vars
    /\ UNCHANGED text_vars

\* load_cached_credentials(browser), as check_credentials calls it
CallLoadCachedCredentials ==
    /\ \E b \in Providers :
          cred_log' = [op |-> "load_cached_credentials", browser |-> b,
                       force |-> FALSE, extractor |-> FALSE, path |-> 0,
                       found |-> LoadCachedCredentials(b).some,
                       cookies |-> LoadCachedCredentials(b).cookies,
                       n |-> 1 - cred_log.n]
    /\ UNCHANGED <<cred_file, cookie_file_cache, tmpfiles, now>>
    /\ UNCHANGED base_dir
    /\ UNCHANGED pipe_vars
    /\ UNCHANGED batch_vars
    /\ UNCHANGED text_vars

\* faulty variant: the file stays
UnlinkKeeps(file) == file

\* cred_path.unlink()
Unlink(file) == [exists |-> FALSE, mode |-> 0, creds |-> NoCreds]

\* check_credentials(args) with args.clear_credentials
ClearCredentials ==
    /\ cred_file' = IF cred_file.exists THEN Unlink(cred_file) ELSE cred_file
    /\ cred_log' = [NoCall EXCEPT !.op = "clear_credentials",
                                  !.n = 1 - cred_log.n]
    /\ UNCHANGED <<cookie_file_cache, tmpfiles, now>>
    /\ UNCHANGED base_dir
    /\ UNCHANGED pipe_vars
    /\ UNCHANGED batch_vars
    /\ UNCHANGED text_vars

\* time.time() advances
Tick ==
    /\ \E d \in TickSteps : now + d <= MaxTime /\ now' = now + d
    /\ UNCHANGED <<cred_file, cookie_file_cache, tmpfiles, cred_log>>
    /\ UNCHANGED base_dir
    /\ UNCHANGED pipe_vars
    /\ UNCHANGED batch_vars
    /\ UNCHANGED text_vars

\* a temporary cookie file disappears (os.path.exists turns false)
TmpFileRemoved ==
    /\ \E id \in 1..Len(tmpfiles) :
          /\ tmpfiles[id].exists
          /\ tmpfiles' = [tmpfiles EXCEPT ![id].exists = FALSE]
    /\ UNCHANGED <<cred_file, cookie_file_cache, now, cred_log>>
    /\ UNCHANGED base_dir
    /\ UNCHANGED pipe_vars
    /\ UNCHANGED batch_vars
    /\ UNCHANGED text_vars

\* --------------------------------------------------------- download_with_ytdlp

\* faulty variant: --cookies is passed whatever get_browser_cookies returned
YtdlpCallAlwaysCookies(download_type, with_cookies) ==
    IF download_type = "subtitles" THEN "yt-dlp subtitles --cookies"
    ELSE "yt-dlp audio --cookies"

\* the command line subprocess.run is given
YtdlpCall(download_type, with_cookies) ==
    IF download_type = "subtitles"
    THEN (IF with_cookies THEN "yt-dlp subtitles --cookies" ELSE "yt-dlp subtitles")
    ELSE (IF with_cookies THEN "yt-dlp audio --cookies" ELSE "yt-dlp audio")

YtdlpCalls(download_type) ==
    {YtdlpCall(download_type, TRUE), YtdlpCall(download_type, FALSE)}

\* download_with_ytdlp: the cookie file is resolved first, then the command is
\* run with or without --cookies; a non-zero exit re-raises CalledProcessError
DownloadWithYtdlp(download_type, br, extracted, write_ok, raised) ==
    /\ IF br # NoBrowser
       THEN GetBrowserCookies(br, FALSE, extracted, write_ok)
       ELSE UNCHANGED cred_vars
    /\ calls' = calls
          \o <<YtdlpCall(download_type, br # NoBrowser /\ cred_log'.path # 0)>>
          \o (IF raised THEN <<"CalledProcessError">> ELSE << >>)

\* ------------------------------------------------------------ _format_subtitles
ApiLine == "[1.00] hello"

LangLabel == "Subtitles (zh)"

\* a track of the listing: has it a subtitle_url, how the fetch ends, the body
TrackOk == [url |-> TRUE, fetch |-> "ok", body |-> <<ApiLine>>]

TrackHttpError == [url |-> TRUE, fetch |-> "http_error", body |-> << >>]

TrackNetError == [url |-> TRUE, fetch |-> "network_error", body |-> << >>]

TrackBadPayload == [url |-> TRUE, fetch |-> "bad_payload", body |-> << >>]

TrackNoUrl == [url |-> FALSE, fetch |-> "ok", body |-> << >>]

\* what v.get_subtitle can answer
SubtitleListings ==
    { [wellformed |-> FALSE, tracks |-> << >>],
      [wellformed |-> TRUE, tracks |-> << >>],
      [wellformed |-> TRUE, tracks |-> <<TrackOk>>],
      [wellformed |-> TRUE, tracks |-> <<TrackNoUrl>>],
      [wellformed |-> TRUE, tracks |-> <<TrackHttpError>>],
      [wellformed |-> TRUE, tracks |-> <<TrackNetError, TrackBadPayload>>],
      [wellformed |-> TRUE, tracks |-> <<TrackHttpError, TrackOk>>] }

\* the lines one track adds to all_subtitles
TrackLines(tr) ==
    IF ~tr.url THEN << >>
    ELSE IF tr.fetch = "ok" THEN <<"", LangLabel, "">> \o tr.body
    ELSE <<"", LangLabel, "">>

RECURSIVE AllTrackLines(_)
AllTrackLines(tracks) ==
    IF tracks = << >> THEN << >>
    ELSE TrackLines(Head(tracks)) \o AllTrackLines(Tail(tracks))

FormatSubtitles(listing) ==
    IF ~listing.wellformed THEN NoText
    ELSE IF listing.tracks = << >> THEN NoText
    ELSE LET all == AllTrackLines(listing.tracks)
         IN IF all = << >> THEN NoText
            ELSE Some(<<"Video Subtitles">> \o all)

\* ------------------------------------------------- per-video working directory
EmptyDir == [vtt |-> NoText, srt |-> NoText, raw |-> NoText,
             corrected |-> NoText, corrections |-> NoText, audio |-> NoText]

VttText == <<"WEBVTT", "00:00:01.000 --> 00:00:02.000", "hello">>

SrtText == <<"1", "00:00:01,000 --> 00:00:02,000", "hello">>

RawTranscript == <<"raw words">>

AudioData == <<"m4a">>

\* directories earlier runs of the pipeline leave behind: a downloaded
\* subtitle file; a raw transcript with its correction; a raw transcript
\* copied to the corrected file because the correction call failed; a raw
\* transcript and the audio, the backend client not having been constructed;
\* a raw transcript and an empty corrected file, the reply having had no
\* corrected section
LeftoverDirs ==
    { [EmptyDir EXCEPT !.srt = Some(SrtText)],
      [EmptyDir EXCEPT !.raw = Some(RawTranscript),
                       !.corrected = Some(<<"fixed words">>),
                       !.corrections = Some(<<"* Original: X -> Corrected: Y">>)],
      [EmptyDir EXCEPT !.raw = Some(RawTranscript),
                       !.corrected = Some(RawTranscript)],
      [EmptyDir EXCEPT !.raw = Some(RawTranscript),
                       !.audio = Some(AudioData)],
      [EmptyDir EXCEPT !.raw = Some(RawTranscript),
                       !.corrected = Some(<< >>)] }

\* the working directory of a video when its pipeline starts
InitialDirs == {EmptyDir} \cup LeftoverDirs

\* faulty variant: the .srt files come first
SubtitleFilesSrtFirst(d) ==
    (IF d.srt.some THEN <<d.srt.text>> ELSE << >>)
      \o (IF d.vtt.some THEN <<d.vtt.text>> ELSE << >>)

\* list(base_dir.glob("*.vtt")) + list(base_dir.glob("*.srt"))
SubtitleFiles(d) ==
    (IF d.vtt.some THEN <<d.vtt.text>> ELSE << >>)
      \o (IF d.srt.some THEN <<d.srt.text>> ELSE << >>)

NonEmptyFile(f) == f.some /\ Len(f.text) > 0

\* ------------------------------------------------------ get_video_text_content
\* faulty variant: the message lacks the marker
AuthRequiredMsgUnmarked(bvid) ==
    <<"Failed to download subtitles for ", "bvid", ".">>

AuthRequiredMsg(bvid) ==
    <<"Authentication required to download subtitles for ", "bvid", ".">>

AllFailedMsg(br, inner) ==
    IF br = NoBrowser
    THEN <<"All subtitle extraction methods failed. Try using --browser option for authentication. Error: ">> \o inner
    ELSE <<"All subtitle extraction methods failed despite authentication. Error: ">> \o inner

CalledProcessError == <<"Command returned non-zero exit status 1.">>

\* faulty variant: step 2 runs whatever step 1 returned
NeedsDownloaderAlways(s) == TRUE

\* if not subtitles: (after step 1)
NeedsDownloader(s) == ~Truthy(s)

\* faulty variant: step 3 is never entered
NeedsWhisperNever(s) == FALSE

\* faulty variant: step 3 runs whatever step 2 returned
NeedsWhisperAlways(s) == TRUE

\* if not subtitles: (after step 2)
NeedsWhisper(s) == ~Truthy(s)

\* the except clause of step 3
AsrFail(inner) ==
    /\ ppc' = "raised"
    /\ perr' = AllFailedMsg(browser, inner)
    /\ UNCHANGED <<cur, subtitles>>

\* v.get_info() and the header sections
GetInfo ==
    /\ ppc = "info"
    /\ \E ok \in BOOLEAN :
          IF ok THEN ppc' = "api" /\ perr' = perr
          ELSE ppc' = "raised" /\ perr' = <<"video info request failed">>
    /\ UNCHANGED <<cur, subtitles, calls, base_dir>>
    /\ UNCHANGED cred_vars
    /\ UNCHANGED batch_vars
    /\ UNCHANGED text_vars

\* step 1: the platform API
TryApi ==
    /\ ppc = "api"
    /\ \E listing \in SubtitleListings :
          /\ subtitles' = FormatSubtitles(listing)
          /\ calls' = IF Truthy(subtitles')
                       THEN calls \o <<"api", "api returned a transcript">>
                       ELSE calls \o <<"api">>
          /\ ppc' = IF NeedsDownloader(subtitles') THEN "scan" ELSE "returned"
    /\ UNCHANGED <<cur, perr, base_dir>>
    /\ UNCHANGED cred_vars
    /\ UNCHANGED batch_vars
    /\ UNCHANGED text_vars

\* step 2, first half: subtitle files already in the directory
ScanExisting ==
    /\ ppc = "scan"
    /\ calls' = Append(calls, "glob")
    /\ LET files == SubtitleFiles(base_dir)
       IN IF files # << >>
          THEN /\ subtitles' = Some(files[1])
               /\ ppc' = IF NeedsWhisper(subtitles') THEN "asr_check" ELSE "returned"
          ELSE /\ subtitles' = subtitles
               /\ ppc' = "ytdlp_subs"
    /\ UNCHANGED <<cur, perr, base_dir>>
    /\ UNCHANGED cred_vars
    /\ UNCHANGED batch_vars
    /\ UNCHANGED text_vars

\* what a successful yt-dlp --write-subs run leaves in the directory
SubtitleDownloads ==
    { [vtt |-> NoText, srt |-> NoText],
      [vtt |-> Some(VttText), srt |-> NoText],
      [vtt |-> NoText, srt |-> Some(SrtText)],
      [vtt |-> Some(VttText), srt |-> Some(SrtText)],
      [vtt |-> Some(<< >>), srt |-> NoText] }

\* faulty variant: the failure is never put down to missing credentials
AuthNeededNever(br) == FALSE

\* if not browser: (in the except clause of step 2)
AuthNeeded(br) == br = NoBrowser

\* step 2, second half: download_with_ytdlp(download_type="subtitles")
YtdlpSubs ==
    /\ ppc = "ytdlp_subs"
    /\ \E extracted \in BatchExtractorReplies, write_ok \in BOOLEAN, raised \in BOOLEAN :
          /\ DownloadWithYtdlp("subtitles", browser, extracted, write_ok, raised)
          /\ IF raised
             THEN /\ base_dir' = base_dir
                  /\ subtitles' = subtitles
                  /\ IF AuthNeeded(browser)
                     THEN ppc' = "raised" /\ perr' = AuthRequiredMsg(cur)
                     ELSE ppc' = "asr_check" /\ perr' = perr
             ELSE \E dl \in SubtitleDownloads :
                  /\ base_dir' = [base_dir EXCEPT !.vtt = dl.vtt, !.srt = dl.srt]
                  /\ LET files == SubtitleFiles(base_dir')
                     IN subtitles' = IF files # << >> THEN Some(files[1])
                                      ELSE subtitles
                  /\ ppc' = IF NeedsWhisper(subtitles') THEN "asr_check" ELSE "returned"
                  /\ perr' = perr
    /\ UNCHANGED cur
    /\ UNCHANGED batch_vars
    /\ UNCHANGED text_vars

\* faulty variant: the transcripts of an earlier run are never used
TranscriptsCachedNever(d) == FALSE

\* faulty variant: the raw transcript alone counts
TranscriptsCachedRawOnly(d) == NonEmptyFile(d.raw)

\* transcript_path and corrected_path both exist and are non-empty
TranscriptsCached(d) == NonEmptyFile(d.raw) /\ NonEmptyFile(d.corrected)

\* step 3, first half: reuse the transcripts of an earlier run
AsrCheck ==
    /\ ppc = "asr_check"
    /\ IF TranscriptsCached(base_dir)
       THEN /\ subtitles' = Some(<<"## Whisper Transcript (Corrected)">>
                                   \o base_dir.corrected.text)
            /\ ppc' = "returned"
       ELSE /\ subtitles' = subtitles
            /\ ppc' = "audio"
    /\ UNCHANGED <<cur, perr, calls, base_dir>>
    /\ UNCHANGED cred_vars
    /\ UNCHANGED batch_vars
    /\ UNCHANGED text_vars

\* step 3: download_with_ytdlp(download_type="audio") and the size check
AudioDownload ==
    /\ ppc = "audio"
    /\ \E extracted \in BatchExtractorReplies, write_ok \in BOOLEAN,
          out \in {"raised", "written", "empty", "nothing"} :
          /\ DownloadWithYtdlp("audio", browser, extracted, write_ok,
                               out = "raised")
          /\ base_dir' = [base_dir EXCEPT !.audio =
                         CASE out = "written" -> Some(AudioData)
                           [] out = "empty" -> Some(<< >>)
                           [] OTHER -> @]
          /\ IF out = "raised" THEN AsrFail(CalledProcessError)
             ELSE IF ~NonEmptyFile(base_dir'.audio)
             THEN AsrFail(<<"Audio download failed or file is empty">>)
             ELSE ppc' = "whisper" /\ UNCHANGED <<cur, subtitles, perr>>
    /\ UNCHANGED batch_vars
    /\ UNCHANGED text_vars

\* step 3: the whisper subprocess, the rename and the size check
Whisper ==
    /\ ppc = "whisper"
    /\ \E out \in {"nonzero", "nofile", "empty", "text"} :
          CASE out = "nonzero" ->
                 /\ calls' = Append(calls, "whisper")
                 /\ base_dir' = base_dir
                 /\ AsrFail(<<"Whisper failed with return code 1">>)
            [] out = "nofile" ->
                 /\ calls' = Append(calls, "whisper")
                 /\ base_dir' = base_dir
                 /\ AsrFail(<<"Whisper did not generate any transcript file">>)
            [] out = "empty" ->
                 /\ calls' = Append(calls, "whisper")
                 /\ base_dir' = [base_dir EXCEPT !.raw = Some(<< >>)]
                 /\ AsrFail(<<"Whisper transcript generation failed or file is empty">>)
            [] out = "text" ->
                 /\ calls' = calls \o <<"whisper", "whisper wrote a transcript">>
                 /\ base_dir' = [base_dir EXCEPT !.raw = Some(RawTranscript)]
                 /\ ppc' = "llm"
                 /\ UNCHANGED <<cur, subtitles, perr>>
    /\ UNCHANGED cred_vars
    /\ UNCHANGED batch_vars
    /\ UNCHANGED text_vars

\* ---- the reply of the correction backend and its two sections
Fixed == "fixed words"

Note == "* Original: X -> Corrected: Y"

LlmReplies ==
    { <<"CORRECTED_TRANSCRIPT:", Fixed, "", "KEY_CORRECTIONS:", Note>>,
      <<Fixed>>,
      <<"KEY_CORRECTIONS:", Note, "CORRECTED_TRANSCRIPT:", Fixed>>,
      << >> }

\* index of the first line holding the marker, 0 if none
FirstIndex(t, marker) ==
    IF Contains(t, marker)
    THEN CHOOSE i \in 1..Len(t) :
            /\ t[i] \in LinesContaining(marker)
            /\ \A j \in 1..(i - 1) : t[j] \notin LinesContaining(marker)
    ELSE 0

\* str.strip() on lines: blank lines at both ends go
RECURSIVE LStrip(_)
LStrip(t) == IF t # << >> /\ Head(t) = "" THEN LStrip(Tail(t)) ELSE t

RECURSIVE RStrip(_)
RStrip(t) ==
    IF t # << >> /\ t[Len(t)] = "" THEN RStrip(SubSeq(t, 1, Len(t) - 1)) ELSE t

Strip(t) == RStrip(LStrip(t))

\* the section extraction of get_video_text_content
ParseReply(full_response) ==
    IF Contains(full_response, "CORRECTED_TRANSCRIPT:")
         /\ Contains(full_response, "KEY_CORRECTIONS:")
    THEN LET parts == SubSeq(full_response,
                             FirstIndex(full_response, "CORRECTED_TRANSCRIPT:") + 1,
                             Len(full_response))
         IN IF Contains(parts, "KEY_CORRECTIONS:")
            THEN LET k == FirstIndex(parts, "KEY_CORRECTIONS:")
                 IN [corrected_transcript |-> Strip(SubSeq(parts, 1, k - 1)),
                     key_corrections |-> Strip(SubSeq(parts, k + 1, Len(parts)))]
            ELSE [corrected_transcript |-> << >>, key_corrections |-> << >>]
    ELSE [corrected_transcript |-> full_response, key_corrections |-> << >>]

\* step 3: SimpleLLM(), llm.call, the section split, the clean-up of the audio
Correct ==
    /\ ppc = "llm"
    /\ LET transcript == base_dir.raw.text
       IN \E out \in {"init_error", "call_error", "reply"} :
          CASE out = "init_error" ->
                 /\ calls' = calls
                 /\ base_dir' = base_dir
                 /\ AsrFail(<<"OPENAI: LLM_API_KEY is required.">>)
            [] out = "call_error" ->
                 /\ calls' = Append(calls, "llm")
                 /\ base_dir' = [base_dir EXCEPT !.corrected = Some(transcript),
                                         !.audio = NoText]
                 /\ subtitles' = Some(<<"## Whisper Transcript">> \o transcript)
                 /\ ppc' = "returned"
                 /\ UNCHANGED <<cur, perr>>
            [] out = "reply" ->
                 \E full_response \in LlmReplies :
                 LET p == ParseReply(full_response)
                 IN /\ calls' = Append(calls, "llm")
                    /\ base_dir' = [base_dir EXCEPT
                          !.corrected = Some(p.corrected_transcript),
                          !.corrections =
                              IF p.key_corrections # << >>
                              THEN Some(p.key_corrections) ELSE @,
                          !.audio = NoText]
                    /\ subtitles' = Some(<<"## Whisper Transcript (Corrected)">>
                                           \o p.corrected_transcript)
                    /\ ppc' = "returned"
                    /\ UNCHANGED <<cur, perr>>
    /\ UNCHANGED cred_vars
    /\ UNCHANGED batch_vars
    /\ UNCHANGED text_vars

\* ------------------------------------------------------ get_all_user_subtitles
NoLimit == [some |-> FALSE, n |-> 0]

Limit(n) == [some |-> TRUE, n |-> n]

Limits == {NoLimit} \cup {Limit(n) : n \in (-1)..MaxVideos}

Browsers == {NoBrowser, "chrome"}

Sources == {"api", "yt-dlp", "whisper", "failed"}

\* faulty variant: the total of the empty-list return is reported
EarlyStatsZeroTotal(total) ==
    [total_videos |-> 0, processed_videos |-> 0, videos_with_subtitles |-> 0]

\* the statistics of the two early returns
EarlyStats(total) ==
    [total_videos |-> total, processed_videos |-> 0, videos_with_subtitles |-> 0]

\* the statistics the loop starts from
InitialStats(total) ==
    [total_videos |-> total, processed_videos |-> 0, videos_with_subtitles |-> 0,
     subtitle_sources |-> [s \in Sources |-> 0]]

NoRet == [kind |-> "none", text |-> << >>, stats |-> EarlyStats(0), error |-> << >>]

\* faulty variant: a negative limit truncates as well
TruncatesNegative(lim, n) == lim.some /\ lim.n # 0 /\ lim.n < n

\* limit and limit > 0 and limit < len(videos)
Truncates(lim, n) == lim.some /\ lim.n # 0 /\ lim.n > 0 /\ lim.n < n

\* videos[:limit]
ApplyLimit(list, lim) ==
    IF Truncates(lim, Len(list)) THEN SubSeq(list, 1, lim.n) ELSE list

\* total_videos as the loop's statistics record it
TotalVideos(list, lim) == Len(ApplyLimit(list, lim))

\* faulty variant: no error is recognised as an authentication error
IsAuthErrorNever(msg) == FALSE

\* "Authentication required" in error_message
IsAuthError(msg) == Contains(msg, "Authentication required")

\* the source a transcript is counted under
SubtitleSource(t) ==
    IF Contains(t, "Whisper Transcript") THEN "whisper"
    ELSE IF Contains(t, "yt-dlp") THEN "yt-dlp"
    ELSE "api"

\* a line the pattern ^#+\s*Whisper Transcript.*$ matches
IsSectionHeader(line) ==
    line \in {"## Whisper Transcript (Corrected)", "## Whisper Transcript"}

\* the two re.sub calls that blank markdown section headers
RECURSIVE BlankHeaders(_)
BlankHeaders(t) ==
    IF t = << >> THEN << >>
    ELSE <<IF IsSectionHeader(Head(t)) THEN "" ELSE Head(t)>>
            \o BlankHeaders(Tail(t))

\* representative lines of subtitle texts
SrtCounter == "1"

SrtCue == "00:00:01,000 --> 00:00:02,000"

BracketOnly == "[1.00]"

WhisperLine == "[00:00.000 --> 00:02.880] hello"

\* the blank lines a trailing \s* consumes
RECURSIVE SkipBlank(_)
SkipBlank(t) == IF t # << >> /\ Head(t) = "" THEN SkipBlank(Tail(t)) ELSE t

\* remove_timestamps, second pattern: ^\d+\s*\n<cue>\s*\n takes a counter
\* line, the blank lines after it, the hh:mm:ss,mmm cue line, its line end and
\* the blank lines after that; the scan goes on behind the match
RECURSIVE RemoveSrtCues(_)
RemoveSrtCues(t) ==
    IF t = << >> THEN << >>
    ELSE LET after == SkipBlank(Tail(t))
         IN IF Head(t) = SrtCounter /\ Len(after) >= 2 /\ Head(after) = SrtCue
            THEN LET rest == SkipBlank(Tail(after))
                 IN IF rest = << >> THEN <<"">> ELSE RemoveSrtCues(rest)
            ELSE <<Head(t)>> \o RemoveSrtCues(Tail(t))

\* remove_timestamps, first and fourth pattern inside one line: the bracketed
\* prefix and the blank behind it go; the hh:mm:ss.mmm cue line of the
\* representative VTT file matches the third pattern as little as the others
RemoveLineTimestamp(line) ==
    IF line \in {ApiLine, WhisperLine} THEN "hello" ELSE line

\* remove_timestamps, fourth pattern over the text: the \s* behind a bracket
\* that ends its line also takes the line end and the blank lines after it
RECURSIVE RemoveLineTimestamps(_)
RemoveLineTimestamps(t) ==
    IF t = << >> THEN << >>
    ELSE IF Head(t) = BracketOnly
    THEN LET rest == SkipBlank(Tail(t))
         IN IF rest = << >> THEN <<"">> ELSE RemoveLineTimestamps(rest)
    ELSE <<RemoveLineTimestamp(Head(t))>> \o RemoveLineTimestamps(Tail(t))

\* re.sub(r"\n{3,}", "\n\n", result): a run of blank lines becomes one
RECURSIVE CollapseBlank(_)
CollapseBlank(t) ==
    IF Len(t) < 2 THEN t
    ELSE IF t[1] = "" /\ t[2] = "" THEN CollapseBlank(Tail(t))
    ELSE <<Head(t)>> \o CollapseBlank(Tail(t))

\* remove_timestamps(subtitle_text)
RemoveTimestamps(t) ==
    Strip(CollapseBlank(RemoveLineTimestamps(RemoveSrtCues(t))))

\* header removal followed by remove_timestamps
CleanSubtitles(t) == RemoveTimestamps(BlankHeaders(t))

Block(bvid, kind, body) == [bvid |-> bvid, kind |-> kind, body |-> body]

Bump(st, source) ==
    [st EXCEPT !.subtitle_sources[source] = @ + 1]

\* the statistics after a normal return of the pipeline
StatsAfterReturn(st, s) ==
    LET st1 == [st EXCEPT !.processed_videos = @ + 1]
    IN IF Truthy(s)
       THEN Bump([st1 EXCEPT !.videos_with_subtitles = @ + 1],
                 SubtitleSource(s.text))
       ELSE Bump(st1, "failed")

\* faulty variant: the failure is not counted
StatsAfterFailureUncounted(st) == st

\* the statistics after a non-authentication exception of the pipeline
StatsAfterFailure(st) == Bump(st, "failed")

\* faulty variant: an empty list is not noticed
NoVideosNever(list) == FALSE

\* if not videos:
NoVideos(list) == list = << >>

\* faulty variant: the key is not put into os.environ
SetExportFlagNever(env) == env

\* os.environ["export_user_subtitles"] = str(uid)
SetExportFlag(env) == TRUE

\* faulty variant: the finally clause leaves the key
DelExportFlagKeeps(env) == env

\* finally: del os.environ["export_user_subtitles"] when the key is there
DelExportFlag(env) == FALSE

\* the call itself up to the loop: get_user_videos, the limit, the flag
BatchStart ==
    /\ bpc = "idle"
    /\ \E n \in 0..MaxVideos, lim \in Limits, br \in Browsers :
          /\ fetched' = [i \in 1..n |-> i]
          /\ limit' = lim
          /\ browser' = br
          /\ passed' = << >>
          /\ all_subtitles' = << >>
          /\ idx' = 1
          /\ IF NoVideos(fetched')
             THEN /\ videos' = fetched'
                  /\ stats' = EarlyStats(0)
                  /\ batch_ret' = [kind |-> "returned", text |-> << >>,
                                   stats |-> stats', error |-> << >>]
                  /\ bpc' = "returned"
                  /\ environ' = environ
             ELSE IF ~Truncates(lim, n) /\ lim.some /\ lim.n = 0
             THEN /\ videos' = fetched'
                  /\ stats' = EarlyStats(Len(videos'))
                  /\ batch_ret' = [kind |-> "returned", text |-> << >>,
                                   stats |-> stats', error |-> << >>]
                  /\ bpc' = "returned"
                  /\ environ' = environ
             ELSE /\ videos' = ApplyLimit(fetched', lim)
                  /\ stats' = InitialStats(TotalVideos(fetched', lim))
                  /\ batch_ret' = NoRet
                  /\ bpc' = "loop"
                  /\ environ' = SetExportFlag(environ)
    /\ UNCHANGED pipe_vars
    /\ UNCHANGED cred_vars
    /\ UNCHANGED base_dir
    /\ UNCHANGED text_vars

\* faulty variant: the list is walked from its end
VideoAtReversed(list, i) == list[Len(list) + 1 - i]

\* the video the for loop is at in its i-th round
VideoAt(list, i) == list[i]

\* for video in videos: the call of get_video_text_content(video.bvid)
BatchCall ==
    /\ bpc = "loop"
    /\ ppc = "idle"
    /\ idx <= Len(videos)
    /\ cur' = VideoAt(videos, idx)
    /\ passed' = Append(passed, VideoAt(videos, idx))
    /\ ppc' = "info"
    /\ subtitles' = NoText
    /\ perr' = << >>
    /\ calls' = << >>
    /\ base_dir' \in InitialDirs
    /\ UNCHANGED <<bpc, fetched, videos, limit, browser, idx, stats,
                   all_subtitles, environ, batch_ret>>
    /\ UNCHANGED cred_vars
    /\ UNCHANGED text_vars

\* the rest of the loop body after the pipeline returned
BatchSuccess ==
    /\ bpc = "loop"
    /\ ppc = "returned"
    /\ stats' = StatsAfterReturn(stats, subtitles)
    /\ all_subtitles' = Append(all_subtitles,
          IF Truthy(subtitles)
          THEN Block(cur, "subtitles", CleanSubtitles(subtitles.text))
          ELSE Block(cur, "no_subtitles", << >>))
    /\ idx' = idx + 1
    /\ ppc' = "idle"
    /\ UNCHANGED <<bpc, fetched, videos, limit, browser, passed, environ,
                   batch_ret>>
    /\ subtitles' = NoText
    /\ calls' = << >>
    /\ UNCHANGED <<cur, perr>>
    /\ UNCHANGED cred_vars
    /\ UNCHANGED base_dir
    /\ UNCHANGED text_vars

\* the except clause of the loop body, and the finally clause when it re-raises
BatchFailure ==
    /\ bpc = "loop"
    /\ ppc = "raised"
    /\ ppc' = "idle"
    /\ IF IsAuthError(perr)
       THEN /\ bpc' = "raised"
            /\ batch_ret' = [kind |-> "raised", text |-> << >>,
                             stats |-> EarlyStats(0), error |-> perr]
            /\ environ' = DelExportFlag(environ)
            /\ UNCHANGED <<stats, all_subtitles, idx>>
       ELSE /\ stats' = StatsAfterFailure(stats)
            /\ all_subtitles' = Append(all_subtitles, Block(cur, "failed", perr))
            /\ idx' = idx + 1
            /\ UNCHANGED <<bpc, batch_ret, environ>>
    /\ UNCHANGED <<fetched, videos, limit, browser, passed>>
    /\ perr' = << >>
    /\ calls' = << >>
    /\ UNCHANGED <<cur, subtitles>>
    /\ UNCHANGED cred_vars
    /\ UNCHANGED base_dir
    /\ UNCHANGED text_vars

\* after the loop: the join, the return and the finally clause
BatchReturn ==
    /\ bpc = "loop"
    /\ ppc = "idle"
    /\ idx > Len(videos)
    /\ batch_ret' = [kind |-> "returned", text |-> all_subtitles,
                     stats |-> stats, error |-> << >>]
    /\ bpc' = "returned"
    /\ environ' = DelExportFlag(environ)
    /\ UNCHANGED <<fetched, videos, limit, browser, idx, stats,
                   all_subtitles, passed>>
    /\ UNCHANGED pipe_vars
    /\ UNCHANGED cred_vars
    /\ UNCHANGED base_dir
    /\ UNCHANGED text_vars

\* an exception the loop body does not catch (KeyboardInterrupt, a cancelled
\* task) leaves the try block through the finally clause
BatchInterrupted ==
    /\ bpc = "loop"
    /\ bpc' = "interrupted"
    /\ batch_ret' = [kind |-> "interrupted", text |-> << >>,
                     stats |-> EarlyStats(0), error |-> << >>]
    /\ environ' = DelExportFlag(environ)
    /\ ppc' = "idle"
    /\ subtitles' = NoText
    /\ perr' = << >>
    /\ calls' = << >>
    /\ UNCHANGED cur
    /\ UNCHANGED <<fetched, videos, limit, browser, idx, stats,
                   all_subtitles, passed>>
    /\ UNCHANGED cred_vars
    /\ UNCHANGED base_dir
    /\ UNCHANGED text_vars

\* ------------------------------------------------------------- specification
Init ==
    /\ cred_file = AbsentCredFile
    /\ cookie_file_cache = [p \in {} |-> 0]
    /\ tmpfiles = << >>
    /\ now = 0
    /\ cred_log = NoCall
    /\ base_dir = EmptyDir
    /\ ppc = "idle"
    /\ cur = 0
    /\ subtitles = NoText
    /\ perr = << >>
    /\ calls = << >>
    /\ bpc = "idle"
    /\ fetched = << >>
    /\ videos = << >>
    /\ limit = NoLimit
    /\ browser = NoBrowser
    /\ idx = 1
    /\ stats = EarlyStats(0)
    /\ all_subtitles = << >>
    /\ passed = << >>
    /\ environ = FALSE
    /\ batch_ret = NoRet
    /\ fn = "none"
    /\ arg = << >>
    /\ result = << >>

Next ==
    \/ BatchStart
    \/ BatchCall
    \/ GetInfo
    \/ TryApi
    \/ ScanExisting
    \/ YtdlpSubs
    \/ AsrCheck
    \/ AudioDownload
    \/ Whisper
    \/ Correct
    \/ BatchSuccess
    \/ BatchFailure
    \/ BatchReturn
    \/ BatchInterrupted

Spec == Init /\ [][Next]_vars


\* ------------------------------------------------------- retry_llm_processing
\* directories retry_llm_processing may find: the raw transcript missing,
\* empty, of blank lines only, or with text; the corrected transcript and the
\* corrections of an earlier run present or not
RetryDirs ==
    { [EmptyDir EXCEPT !.raw = r, !.corrected = c, !.corrections = k] :
        r \in {NoText, Some(<< >>), Some(<<"", "">>), Some(RawTranscript)},
        c \in {NoText, Some(<< >>), Some(RawTranscript), Some(<<"old fixed words">>)},
        k \in {NoText, Some(<<Note>>)} }

NotFoundMsg ==
    <<"Whisper transcript file not found at subtitles_raw.txt. Run with --text first.">>

EmptyMsg == <<"Whisper transcript file is empty at subtitles_raw.txt.">>

\* faulty variant: a transcript of blank lines passes for text
BlankNever(t) == FALSE

\* not transcript.strip()
Blank(t) == Strip(t) = << >>

\* retry_llm_processing(identifier) is called for a video
RetryCall ==
    /\ ppc = "idle"
    /\ fn = "none"
    /\ \E bvid \in 1..MaxVideos, d \in RetryDirs :
          /\ cur' = bvid
          /\ base_dir' = d
    /\ ppc' = "retry"
    /\ fn' = "retry_llm_processing"
    /\ UNCHANGED <<subtitles, perr, calls, arg, result>>
    /\ UNCHANGED cred_vars
    /\ UNCHANGED batch_vars

\* the two checks of the raw transcript
RetryLoad ==
    /\ ppc = "retry"
    /\ IF ~base_dir.raw.some
       THEN ppc' = "raised" /\ perr' = NotFoundMsg
       ELSE IF Blank(base_dir.raw.text)
       THEN ppc' = "raised" /\ perr' = EmptyMsg
       ELSE ppc' = "retry_llm" /\ perr' = perr
    /\ UNCHANGED <<cur, subtitles, calls, base_dir>>
    /\ UNCHANGED cred_vars
    /\ UNCHANGED batch_vars
    /\ UNCHANGED text_vars

\* SimpleLLM(), llm.call, the section split and the two writes
RetryCorrect ==
    /\ ppc = "retry_llm"
    /\ \E out \in {"init_error", "call_error", "reply"} :
          CASE out = "init_error" ->
                 /\ calls' = calls
                 /\ base_dir' = base_dir
                 /\ ppc' = "raised"
                 /\ perr' = <<"OPENAI: LLM_API_KEY is required.">>
                 /\ subtitles' = subtitles
            [] out = "call_error" ->
                 /\ calls' = Append(calls, "llm")
                 /\ base_dir' = base_dir
                 /\ ppc' = "raised"
                 /\ perr' = <<"Connection error.">>
                 /\ subtitles' = subtitles
            [] out = "reply" ->
                 \E full_response \in LlmReplies,
                    saved \in BOOLEAN, noted \in BOOLEAN :
                 LET p == ParseReply(full_response)
                 IN /\ calls' = Append(calls, "llm")
                    /\ IF saved
                       THEN /\ base_dir' = [base_dir EXCEPT
                                  !.corrected = Some(p.corrected_transcript),
                                  !.corrections =
                                      IF p.key_corrections # << >> /\ noted
                                      THEN Some(p.key_corrections) ELSE @]
                            /\ ppc' = "returned"
                            /\ subtitles' = Some(p.corrected_transcript)
                            /\ perr' = perr
                       ELSE /\ base_dir' = base_dir
                            /\ ppc' = "raised"
                            /\ perr' = <<"[Errno 13] Permission denied: subtitles.txt">>
                            /\ subtitles' = subtitles
    /\ UNCHANGED cur
    /\ UNCHANGED cred_vars
    /\ UNCHANGED batch_vars
    /\ UNCHANGED text_vars

NextRetry ==
    \/ RetryCall
    \/ RetryLoad
    \/ RetryCorrect

SpecRetry == Init /\ [][NextRetry]_vars

\* the credential cache alone, under any sequence of its operations
NextCred ==
    \/ CallGetBrowserCookies
    \/ CallLoadCachedCredentials
    \/ ClearCredentials
    \/ Tick
    \/ TmpFileRemoved

SpecCred == Init /\ [][NextCred]_vars

\* ------------------------------------------- the text functions on their own
\* one application to one argument in a behaviour
\* lines of the texts remove_timestamps is applied to
TextLines == {"", SrtCounter, SrtCue, "hello", ApiLine, BracketOnly}

\* lines of the replies of the correction backend
ReplyLines == {"CORRECTED_TRANSCRIPT:", "KEY_CORRECTIONS:", Fixed, Note, ""}

TextsOver(lines) == UNION {[1..k -> lines] : k \in 0..MaxLines}

\* remove_timestamps(subtitle_text)
ApplyRemoveTimestamps ==
    /\ fn = "none"
    /\ \E subtitle_text \in TextsOver(TextLines) :
          /\ fn' = "remove_timestamps"
          /\ arg' = subtitle_text
          /\ result' = RemoveTimestamps(subtitle_text)
    /\ UNCHANGED <<cred_vars, base_dir, pipe_vars, batch_vars>>

\* the section extraction of get_video_text_content and retry_llm_processing
ApplyParseReply ==
    /\ fn = "none"
    /\ \E full_response \in TextsOver(ReplyLines) :
          /\ fn' = "parse_reply"
          /\ arg' = full_response
          /\ result' = ParseReply(full_response)
    /\ UNCHANGED <<cred_vars, base_dir, pipe_vars, batch_vars>>

\* _format_subtitles(v, cid)
ApplyFormatSubtitles ==
    /\ fn = "none"
    /\ \E listing \in SubtitleListings :
          /\ fn' = "_format_subtitles"
          /\ arg' = listing
          /\ result' = FormatSubtitles(listing)
    /\ UNCHANGED <<cred_vars, base_dir, pipe_vars, batch_vars>>

NextText ==
    \/ ApplyRemoveTimestamps
    \/ ApplyParseReply
    \/ ApplyFormatSubtitles

SpecText == Init /\ [][NextText]_vars

\* ===================================================================== claims
AuthMarker == "Authentication required"

DownloaderCalls == {"glob"} \cup YtdlpCalls("subtitles")

AsrCalls == YtdlpCalls("audio") \cup {"whisper"}

Called(set) == \E i \in 1..Len(calls) : calls[i] \in set

\* C1: once the Direct-API resolver has returned a transcript for a video,
\* that run of get_video_text_content returns it and invokes neither the
\* subtitle-file scan, nor yt-dlp (subtitles or audio), nor Whisper, nor the
\* correction backend.
C1_ApiShortCircuit ==
    Called({"api returned a transcript"})
        => /\ ~Called(DownloaderCalls \cup AsrCalls \cup {"llm"})
           /\ ppc = "returned"
           /\ Truthy(subtitles)

C1_Witness ==
    /\ ppc = "returned"
    /\ calls = <<"api", "api returned a transcript">>

\* position of a call in the order API, downloader, ASR, correction
Stage(c) ==
    CASE c = "api" -> 1
      [] c = "api returned a transcript" -> 2
      [] c = "glob" -> 3
      [] c \in YtdlpCalls("subtitles") -> 4
      [] c \in YtdlpCalls("audio") -> 5
      [] c = "whisper" -> 6
      [] c = "llm" -> 7
      [] OTHER -> 0

\* C2: within one run of get_video_text_content the calls follow the order
\* API, downloader, ASR, correction: the downloader step starts only after the
\* API attempt ended without a transcript, the ASR step only after the
\* downloader step ended without a transcript, and the correction backend is
\* called only when a non-empty raw transcript exists.
C2_ResolverOrder ==
    /\ \A i, j \in 1..Len(calls) :
          (i < j /\ Stage(calls[i]) > 0 /\ Stage(calls[j]) > 0)
              => Stage(calls[i]) < Stage(calls[j])
    /\ (ppc \in {"scan", "ytdlp_subs"} \/ Called(DownloaderCalls))
          => /\ calls[1] = "api"
             /\ ~Called({"api returned a transcript"})
    /\ ppc \in {"scan", "ytdlp_subs"} => ~Truthy(subtitles)
    /\ (ppc \in {"asr_check", "audio", "whisper", "llm"} \/ Called(AsrCalls))
          => Called({"glob"})
    /\ ppc \in {"asr_check", "audio", "whisper", "llm"} => ~Truthy(subtitles)
    /\ Called({"llm"}) => (base_dir.raw.some /\ Len(base_dir.raw.text) > 0)

C2_Witness ==
    /\ ppc = "returned"
    /\ Called({"whisper"})
    /\ Called({"llm"})
    /\ Called(YtdlpCalls("subtitles"))

\* the yt-dlp subtitle download of this run exited non-zero
DownloaderRaised ==
    \E i \in 1..(Len(calls) - 1) :
        calls[i] \in YtdlpCalls("subtitles") /\ calls[i + 1] = "CalledProcessError"

\* C3: when the subtitle download raises and no browser was supplied, the run
\* of get_video_text_content ends in an exception whose message contains
\* 'Authentication required'; no other exception of the run contains it.
C3_AuthMarker ==
    /\ (browser = NoBrowser /\ DownloaderRaised)
          => (ppc = "raised" /\ Contains(perr, AuthMarker))
    /\ (ppc = "raised" /\ ~(browser = NoBrowser /\ DownloaderRaised))
          => ~Contains(perr, AuthMarker)

C3_Witness ==
    /\ ppc = "raised"
    /\ browser = NoBrowser
    /\ DownloaderRaised
    /\ Contains(perr, AuthMarker)

\* C4: the first video whose pipeline raises an authentication-required error
\* ends the batch: the error is re-raised, no later video is handed to the
\* pipeline, no block is appended for the failing video, and nothing is
\* returned.
C4_AuthAbortsBatch ==
    /\ \A k \in 1..Len(all_subtitles) :
          ~Contains(all_subtitles[k].body, AuthMarker)
    /\ bpc = "loop" => /\ Len(all_subtitles) = idx - 1
                       /\ Len(passed) \in {idx - 1, idx}
    /\ bpc = "raised"
          => /\ batch_ret.kind = "raised"
             /\ Contains(batch_ret.error, AuthMarker)
             /\ batch_ret.text = << >>
             /\ idx <= Len(videos)
             /\ passed = SubSeq(videos, 1, idx)
             /\ Len(all_subtitles) = idx - 1
    /\ batch_ret.kind = "returned" => bpc = "returned"

C4_Witness ==
    /\ bpc = "raised"
    /\ idx < Len(videos)
    /\ Len(passed) = idx

\* C5 (as claimed): with a positive limit k below the list length n, exactly
\* the first k videos are handed to the pipeline and the returned statistics
\* report total_videos = n and processed_videos = k.
C5_LimitStats ==
    (batch_ret.kind = "returned" /\ limit.some /\ limit.n > 0
        /\ limit.n < Len(fetched))
        => /\ passed = SubSeq(fetched, 1, limit.n)
           /\ batch_ret.stats.total_videos = Len(fetched)
           /\ batch_ret.stats.processed_videos = limit.n

\* C6: with limit = 0 and a non-empty list the batch returns at once with
\* empty text, processed_videos = 0, videos_with_subtitles = 0 and
\* total_videos = the full list length; no video reaches the pipeline.
C6_LimitZero ==
    (bpc # "idle" /\ limit = Limit(0) /\ Len(fetched) > 0)
        => /\ bpc = "returned"
           /\ batch_ret.kind = "returned"
           /\ batch_ret.text = << >>
           /\ batch_ret.stats.total_videos = Len(fetched)
           /\ batch_ret.stats.processed_videos = 0
           /\ batch_ret.stats.videos_with_subtitles = 0
           /\ passed = << >>
           /\ ppc = "idle"
           /\ calls = << >>
           /\ ~environ

C6_Witness ==
    /\ bpc = "returned"
    /\ limit = Limit(0)
    /\ Len(fetched) > 0

\* the batch ran its loop to the end and returned
LoopReturned ==
    batch_ret.kind = "returned" /\ "subtitle_sources" \in DOMAIN batch_ret.stats

FailedBlocks(blocks) == SelectSeq(blocks, LAMBDA b : b.kind = "failed")

\* C7 (as claimed): when some videos fail with a generic error the batch still
\* returns, processed_videos is the number of videos of the limited list, the
\* failed counter is the number of failing videos, and the text has one block
\* per video.
C7_FailedCounted ==
    LoopReturned
        => /\ Len(batch_ret.text) = Len(videos)
           /\ batch_ret.stats.subtitle_sources["failed"]
                 = Len(FailedBlocks(batch_ret.text))
           /\ batch_ret.stats.processed_videos = Len(videos)

\* C8 (as claimed): the returned statistics hold a failed-video list with one
\* entry per video whose pipeline raised a non-authentication error, in list
\* order, each with the bvid, the title and the error text.
C8_FailedVideosList ==
    LoopReturned
        => /\ "failed_videos" \in DOMAIN batch_ret.stats
           /\ LET fv == batch_ret.stats.failed_videos
                  fb == FailedBlocks(batch_ret.text)
              IN /\ Len(fv) = Len(fb)
                 /\ \A k \in 1..Len(fb) :
                       /\ fv[k].bvid = fb[k].bvid
                       /\ "title" \in DOMAIN fv[k]
                       /\ fv[k].error = fb[k].body

\* ---- credential cache
HasRecord(b) == cred_file.exists /\ b \in DOMAIN cred_file.creds

StaleRecord(b) == HasRecord(b) /\ now - cred_file.creds[b].timestamp > 30

FreshRecord(b) == HasRecord(b) /\ now - cred_file.creds[b].timestamp <= 30

HasLiveEntry(b) ==
    b \in DOMAIN cookie_file_cache /\ tmpfiles[cookie_file_cache[b]].exists

\* this step is a call of the credential cache for provider b
IsCall(op, b) ==
    /\ cred_log'.n # cred_log.n
    /\ cred_log'.op = op
    /\ cred_log'.browser = b

\* C9 (as claimed): get_browser_cookies(provider, force_refresh=false) treats a
\* record older than 30 days as absent and invokes the cookie extractor, after
\* any sequence of operations; load_cached_credentials returns None for it.
C9_ExpiredNeverUsed ==
    [][\A b \in Providers :
          /\ (IsCall("get_browser_cookies", b) /\ ~cred_log'.force /\ StaleRecord(b))
                => cred_log'.extractor
          /\ (IsCall("load_cached_credentials", b) /\ StaleRecord(b))
                => ~cred_log'.found]_vars

\* C9 (amended): unless the in-memory cache holds an entry for the provider
\* whose file exists, get_browser_cookies(provider, force_refresh=false) treats
\* a record older than 30 days as absent and invokes the cookie extractor,
\* returning None or a newly written file; load_cached_credentials returns
\* None for such a record.
C9_ExpiredNotMaterialized ==
    [][\A b \in Providers :
          /\ (IsCall("get_browser_cookies", b) /\ ~cred_log'.force
                /\ StaleRecord(b) /\ ~HasLiveEntry(b))
                => /\ cred_log'.extractor
                   /\ cred_log'.path \in {0, Len(tmpfiles) + 1}
          /\ (IsCall("load_cached_credentials", b) /\ StaleRecord(b))
                => ~cred_log'.found]_vars

C9_Witness ==
    /\ cred_log.op = "get_browser_cookies"
    /\ ~cred_log.force
    /\ cred_log.extractor
    /\ cred_log.path = 0
    /\ StaleRecord(cred_log.browser)

\* C10 (as claimed): with a non-expired record and force_refresh = false,
\* get_browser_cookies returns a cookie file derived from the stored secrets,
\* does not invoke the extractor and does not rewrite the record.
C10_ValidRecordReused ==
    [][\A b \in Providers :
          (IsCall("get_browser_cookies", b) /\ ~cred_log'.force /\ FreshRecord(b))
              => /\ ~cred_log'.extractor
                 /\ cred_log'.path # 0
                 /\ tmpfiles'[cred_log'.path].exists
                 /\ tmpfiles'[cred_log'.path].lines
                       = CookieLines(cred_file.creds[b].cookies)
                 /\ cred_file' = cred_file]_vars

\* C10 (amended): with a non-expired record and force_refresh = false,
\* get_browser_cookies invokes no extractor, rewrites no record and returns an
\* existing cookie file: the provider's in-memory file if that still exists
\* (whatever secrets it was made from), otherwise a new file derived from the
\* stored secrets.
C10_ValidRecordNoExtraction ==
    [][\A b \in Providers :
          (IsCall("get_browser_cookies", b) /\ ~cred_log'.force /\ FreshRecord(b))
              => /\ ~cred_log'.extractor
                 /\ cred_log'.path # 0
                 /\ tmpfiles'[cred_log'.path].exists
                 /\ cred_file' = cred_file
                 /\ IF HasLiveEntry(b)
                    THEN /\ cred_log'.path = cookie_file_cache[b]
                         /\ tmpfiles' = tmpfiles
                    ELSE tmpfiles'[cred_log'.path].lines
                            = CookieLines(cred_file.creds[b].cookies)]_vars

C10_Witness ==
    /\ cred_log.op = "get_browser_cookies"
    /\ ~cred_log.force
    /\ ~cred_log.extractor
    /\ cred_log.path # 0
    /\ cred_log.path = Len(tmpfiles)
    /\ FreshRecord(cred_log.browser)
    /\ Len(tmpfiles) > 1

\* the in-memory cache got no entry it did not have
NoNewEntry ==
    /\ DOMAIN cookie_file_cache' \subseteq DOMAIN cookie_file_cache
    /\ \A p \in DOMAIN cookie_file_cache' :
          cookie_file_cache'[p] = cookie_file_cache[p]

\* the record of provider b was replaced by the secrets just extracted
RecordReplaced(b) ==
    /\ cred_file'.exists
    /\ b \in DOMAIN cred_file'.creds
    /\ cred_file'.creds[b] = [cookies |-> cred_log'.cookies, timestamp |-> now]
    /\ \A p \in DOMAIN LoadAllCredentials \ {b} :
          p \in DOMAIN cred_file'.creds /\ cred_file'.creds[p] = cred_file.creds[p]

\* the forced call extracted and returned None or a new file of the secrets
\* just extracted, which became the in-memory entry
ForcedExtraction(b) ==
    /\ cred_log'.extractor
    /\ cred_log'.path \in {0, Len(tmpfiles) + 1}
    /\ cred_log'.path = 0
          => /\ cred_log'.cookies = NoCookies
             /\ b \notin DOMAIN cookie_file_cache'
             /\ cred_file' = cred_file
             /\ tmpfiles' = tmpfiles
    /\ cred_log'.path # 0
          => /\ cred_log'.cookies # NoCookies
             /\ b \in DOMAIN cookie_file_cache'
             /\ cookie_file_cache'[b] = cred_log'.path
             /\ tmpfiles'[cred_log'.path].exists
             /\ tmpfiles'[cred_log'.path].lines = CookieLines(cred_log'.cookies)

\* C11 (as claimed): get_browser_cookies(provider, force_refresh=true) never
\* returns the cached in-memory file nor one made from the record: it always
\* invokes the extractor and, when secrets are found, replaces the in-memory
\* entry and the persisted record with the fresh secrets and a new timestamp.
C11_ForceRefreshReplaces ==
    [][\A b \in Providers :
          (IsCall("get_browser_cookies", b) /\ cred_log'.force)
              => /\ ForcedExtraction(b)
                 /\ cred_log'.path # 0 => RecordReplaced(b)]_vars

\* C11 (amended): get_browser_cookies(provider, force_refresh=true) never
\* returns the cached in-memory file nor one made from the record: it drops
\* the in-memory entry, always invokes the extractor and, when secrets are
\* found, returns a new file of them that becomes the in-memory entry; the
\* persisted record is replaced by the fresh secrets with a new timestamp, or
\* is left as it was when writing the credentials file fails.
C11_ForceRefreshExtracts ==
    [][\A b \in Providers :
          (IsCall("get_browser_cookies", b) /\ cred_log'.force)
              => /\ ForcedExtraction(b)
                 /\ cred_log'.path # 0
                       => (RecordReplaced(b) \/ cred_file' = cred_file)]_vars

C11_Witness ==
    /\ cred_log.op = "get_browser_cookies"
    /\ cred_log.force
    /\ cred_log.extractor
    /\ cred_log.path = Len(tmpfiles)
    /\ cred_log.path > 1
    /\ cred_log.browser \in DOMAIN cookie_file_cache
    /\ cookie_file_cache[cred_log.browser] = cred_log.path
    /\ HasRecord(cred_log.browser)
    /\ cred_file.creds[cred_log.browser]
          = [cookies |-> cred_log.cookies, timestamp |-> now]
    /\ now > 0

\* C12: when the extractor finds no secrets, get_browser_cookies returns None,
\* leaves the credentials file and the temporary files as they were and adds
\* no in-memory entry; download_with_ytdlp then runs yt-dlp all the same,
\* without --cookies.
C12_NoSecretsNoCookieArg ==
    [][\A b \in Providers :
          (IsCall("get_browser_cookies", b) /\ cred_log'.extractor
              /\ cred_log'.cookies = NoCookies)
              => /\ cred_log'.path = 0
                 /\ cred_file' = cred_file
                 /\ tmpfiles' = tmpfiles
                 /\ NoNewEntry
                 /\ \E cmd \in {"yt-dlp subtitles", "yt-dlp audio"} :
                       calls' \in
                         { calls \o <<cmd>>,
                           calls \o <<cmd, "CalledProcessError">> }]_vars

C12_Witness ==
    /\ cred_log.op = "get_browser_cookies"
    /\ cred_log.extractor
    /\ cred_log.cookies = NoCookies
    /\ cred_log.path = 0
    /\ browser # NoBrowser
    /\ ppc = "asr_check"
    /\ calls = <<"api", "glob", "yt-dlp subtitles">>

\* the run works on a directory in which an earlier run left both transcripts
StartedCached ==
    /\ ppc # "idle"
    /\ TranscriptsCached(base_dir)
    /\ ~Called({"whisper"})

CachedTranscript ==
    Some(<<"## Whisper Transcript (Corrected)">> \o base_dir.corrected.text)

\* C13 (as claimed): a run of get_video_text_content on a directory whose raw
\* and corrected transcript files both exist and are non-empty invokes neither
\* yt-dlp nor Whisper nor the correction backend and, the API having no
\* transcript, returns the cached corrected text.
C13_RerunUsesCache ==
    StartedCached
        => /\ ~Called(YtdlpCalls("subtitles") \cup AsrCalls \cup {"llm"})
           /\ ~Contains(perr, AuthMarker)
           /\ (ppc = "returned" /\ ~Called({"api returned a transcript"}))
                 => subtitles = CachedTranscript

\* Whisper has written a non-empty raw transcript in this run
AsrProduced == Called({"whisper wrote a transcript"})

\* C14 (as claimed): once Whisper has produced a non-empty raw transcript, the
\* run returns a transcript whatever the correction backend does, failure to
\* construct its client included; it never raises.
C14_CorrectionFailureDegrades ==
    (AsrProduced /\ ppc \in {"returned", "raised"})
        => /\ ppc = "returned"
           /\ Truthy(subtitles)

\* the text is the empty string
IsEmptyText(t) == t = << >> \/ t = <<"">>

\* C15 (as claimed): for a reply holding both markers, in any positions, the
\* extracted corrected text is non-empty and holds neither marker; for a reply
\* lacking a marker the corrected text is the whole reply and the correction
\* notes are empty.
C15_SectionsExtracted ==
    fn = "parse_reply"
        => IF Contains(arg, "CORRECTED_TRANSCRIPT:")
                /\ Contains(arg, "KEY_CORRECTIONS:")
           THEN /\ ~IsEmptyText(result.corrected_transcript)
                /\ ~Contains(result.corrected_transcript, "CORRECTED_TRANSCRIPT:")
                /\ ~Contains(result.corrected_transcript, "KEY_CORRECTIONS:")
           ELSE /\ result.corrected_transcript = arg
                /\ result.key_corrections = << >>

\* C16 (as claimed): remove_timestamps(remove_timestamps(x)) =
\* remove_timestamps(x) for every text x.
C16_RemoveTimestampsIdempotent ==
    fn = "remove_timestamps" => RemoveTimestamps(result) = result

\* the listing is empty or malformed, or no track of it delivers content
NothingFetched(listing) ==
    \/ ~listing.wellformed
    \/ listing.tracks = << >>
    \/ \A i \in 1..Len(listing.tracks) :
          ~listing.tracks[i].url \/ listing.tracks[i].fetch # "ok"

\* C17 (as claimed): _format_subtitles returns None when the listing is empty
\* or malformed and when the content fetch fails for every track; it returns
\* no transcript made of language labels alone.
C17_ApiAbsentWhenAllFail ==
    (fn = "_format_subtitles" /\ NothingFetched(arg)) => ~result.some

\* lines that carry an origin or a language label and no transcript text
HeaderLines ==
    {"Video Subtitles", LangLabel, "## Whisper Transcript (Corrected)",
     "## Whisper Transcript", ""}

TranscriptBody(t) == SelectSeq(t, LAMBDA line : line \notin HeaderLines)

\* C18 (as claimed): a transcript with which get_video_text_content returns
\* has text beyond its origin and label lines, on every path.
C18_NoEmptyBody ==
    (ppc = "returned" /\ subtitles.some)
        => TranscriptBody(subtitles.text) # << >>

\* the resolver that produced the transcript the run returned with
Origin ==
    IF Called({"api returned a transcript"}) THEN "api"
    ELSE IF SubtitleFiles(base_dir) # << >>
              /\ Len(SubtitleFiles(base_dir)[1]) > 0 THEN "yt-dlp"
    ELSE "whisper"

\* C19 (as claimed): for a video that returns with a transcript the batch
\* increments the counter of the resolver that produced it, and no other:
\* 'api', 'yt-dlp' for a subtitle file (found or downloaded), 'whisper'.
C19_OriginCounted ==
    [][(bpc = "loop" /\ bpc' = "loop" /\ ppc = "returned" /\ ppc' = "idle"
          /\ Truthy(subtitles))
          => stats'.subtitle_sources
                = [stats.subtitle_sources EXCEPT ![Origin] = @ + 1]]_vars

\* videos the statistics have counted under some origin
Counted ==
    stats.subtitle_sources["api"] + stats.subtitle_sources["yt-dlp"]
        + stats.subtitle_sources["whisper"] + stats.subtitle_sources["failed"]

\* C20: the batch walks the list in order, one video at a time: the pipeline
\* of a video starts only when every earlier video has its block and its
\* place in the statistics, and the blocks stand in list order.
C20_ListOrder ==
    /\ \A k \in 1..Len(passed) : k <= Len(videos) /\ passed[k] = videos[k]
    /\ \A k \in 1..Len(all_subtitles) :
          k <= Len(videos) /\ all_subtitles[k].bvid = videos[k]
    /\ bpc = "loop"
          => /\ Len(all_subtitles) = idx - 1
             /\ Counted = idx - 1
             /\ ppc = "idle" => Len(passed) = idx - 1
             /\ ppc # "idle" => (Len(passed) = idx /\ cur = videos[idx])
    /\ LoopReturned
          => /\ Len(batch_ret.text) = Len(videos)
             /\ \A k \in 1..Len(videos) : batch_ret.text[k].bvid = videos[k]
             /\ passed = videos

C20_Witness ==
    /\ LoopReturned
    /\ Len(videos) = 2
    /\ batch_ret.text[1].kind = "failed"
    /\ batch_ret.text[2].kind = "subtitles"

\* the yt-dlp audio download of this run exited non-zero
AudioRaised ==
    \E i \in 1..(Len(calls) - 1) :
        calls[i] \in {"yt-dlp audio", "yt-dlp audio --cookies"}
            /\ calls[i + 1] = "CalledProcessError"

\* C21 (as claimed): when the audio download of the ASR path fails and no
\* browser was supplied, the batch is aborted by the re-raised error instead
\* of the video being marked failed.
C21_AsrAuthAbortsBatch ==
    [][(bpc = "loop" /\ bpc' # "interrupted" /\ ppc = "raised" /\ ppc' = "idle"
          /\ browser = NoBrowser /\ AudioRaised)
          => /\ bpc' = "raised"
             /\ all_subtitles' = all_subtitles]_vars

\* the pipeline is in its ASR step
InAsr == ppc \in {"asr_check", "audio", "whisper", "llm"}

\* C22 (as claimed): with no browser, a downloader step that ends without a
\* transcript, by a raise or by writing no file, ends the run in the
\* authentication-required error; the ASR step is never entered.
C22_NoAuthNoAsr ==
    browser = NoBrowser => (~InAsr /\ ~Called(AsrCalls))

\* C22 (amended): with no browser, a yt-dlp subtitle download that raises ends
\* the run in the authentication-required error and the ASR step is not
\* entered; with a browser the same raise leads to the ASR step; a download
\* that ends without a usable file leads to the ASR step with or without a
\* browser.
C22_RaiseDecidesAsr ==
    /\ (browser = NoBrowser /\ DownloaderRaised)
          => /\ ppc = "raised"
             /\ Contains(perr, AuthMarker)
             /\ ~Called(AsrCalls)
    /\ (browser # NoBrowser /\ DownloaderRaised)
          => (InAsr \/ Called(AsrCalls) \/ ppc = "returned")
    /\ (InAsr \/ Called(AsrCalls))
          => /\ Called({"glob"})
             /\ ~Called({"api returned a transcript"})
             /\ browser # NoBrowser \/ ~DownloaderRaised
    /\ (Called({"yt-dlp subtitles", "yt-dlp subtitles --cookies"})
           /\ ~DownloaderRaised /\ SubtitleFiles(base_dir) = << >>)
          => (InAsr \/ Called(AsrCalls) \/ ppc = "returned")

C22_Witness ==
    /\ browser = NoBrowser
    /\ Called({"yt-dlp subtitles"})
    /\ ~DownloaderRaised
    /\ Called({"whisper"})
    /\ ppc = "returned"

\* this step wrote the credentials file for provider b
SavedFor(b) ==
    /\ IsCall("get_browser_cookies", b)
    /\ cred_log'.extractor
    /\ cred_log'.cookies # {}
    /\ cred_file' # cred_file

\* C23: a successful save_credentials(provider, cookies) leaves a file of mode
\* 0o600 whose entry for the provider holds exactly those cookies and the
\* time of the save, the other entries kept; load_cached_credentials(provider)
\* returns the cookies of the entry when it is at most 30 days old and None
\* otherwise; without a file it returns None and the no-argument load gives {}.
C23_SaveLoadRoundTrip ==
    [][\A b \in Providers :
          /\ SavedFor(b)
                => /\ RecordReplaced(b)
                   /\ cred_file'.mode = 384
                   /\ DOMAIN cred_file'.creds = DOMAIN LoadAllCredentials \cup {b}
          /\ IsCall("load_cached_credentials", b)
                => /\ cred_log'.found <=> FreshRecord(b)
                   /\ cred_log'.found
                         => cred_log'.cookies = cred_file.creds[b].cookies
                   /\ ~cred_file.exists
                         => /\ ~cred_log'.found
                            /\ LoadAllCredentials = [p \in {} |-> 0]]_vars

C23_Witness ==
    /\ cred_log.op = "load_cached_credentials"
    /\ cred_log.found
    /\ HasRecord(cred_log.browser)
    /\ cred_file.mode = 384
    /\ cred_file.creds[cred_log.browser].timestamp = 0
    /\ now = 30
    /\ cred_log.cookies = cred_file.creds[cred_log.browser].cookies
    /\ cred_log.cookies # {}

\* this step is check_credentials with clear_credentials set
IsClear == cred_log'.n # cred_log.n /\ cred_log'.op = "clear_credentials"

\* C24: clearing leaves no credentials file, whatever it held and however old
\* its records were; it invokes no extractor and touches neither the in-memory
\* cache nor the cookie files; a load_cached_credentials that follows returns
\* None for every provider.
C24_ClearDeletesAll ==
    [][/\ IsClear
             => /\ ~cred_file'.exists
                /\ ~cred_log'.extractor
                /\ cookie_file_cache' = cookie_file_cache
                /\ tmpfiles' = tmpfiles
       /\ \A b \in Providers :
             (IsCall("load_cached_credentials", b)
                 /\ cred_log.op = "clear_credentials")
                 => /\ ~cred_log'.found
                    /\ cred_log'.cookies = {}]_vars

C24_Witness ==
    /\ cred_log.op = "clear_credentials"
    /\ ~cred_file.exists
    /\ DOMAIN cookie_file_cache = Providers
    /\ \A b \in Providers : tmpfiles[cookie_file_cache[b]].exists
    /\ now = 31

\* C30 (as claimed): between two consecutive unforced get_browser_cookies
\* calls for the same provider in one process, the second does not invoke
\* the cookie extractor when the first did, whether or not the first found
\* secrets.
C30_ExtractorOnce ==
    [][\A b \in Providers :
          (/\ IsCall("get_browser_cookies", b)
           /\ ~cred_log'.force
           /\ cred_log.op = "get_browser_cookies"
           /\ cred_log.browser = b
           /\ ~cred_log.force
           /\ cred_log.extractor
           /\ cred_log.path # 0 => tmpfiles[cred_log.path].exists)
              => ~cred_log'.extractor]_vars

\* C25: when get_user_videos gives an empty list, whatever the limit and the
\* browser, the batch has returned at once with an empty text and statistics
\* of exactly total 0, processed 0, with subtitles 0; no video was handed to
\* the pipeline, nothing was called and the environment flag was not set.
C25_EmptyListReturns ==
    (bpc # "idle" /\ Len(fetched) = 0)
        => /\ bpc = "returned"
           /\ batch_ret.kind = "returned"
           /\ batch_ret.text = << >>
           /\ batch_ret.stats = [total_videos |-> 0, processed_videos |-> 0,
                                 videos_with_subtitles |-> 0]
           /\ passed = << >>
           /\ all_subtitles = << >>
           /\ ppc = "idle"
           /\ calls = << >>
           /\ cred_log.op = "none"
           /\ ~environ

C25_Witness ==
    /\ bpc = "returned"
    /\ Len(fetched) = 0
    /\ limit = [some |-> TRUE, n |-> 2]
    /\ browser = "chrome"
    /\ batch_ret.stats.total_videos = 0

\* the limit is None, negative, or positive and at least the list's length
ProcessAll ==
    \/ ~limit.some
    \/ limit.n < 0
    \/ limit.n > 0 /\ limit.n >= Len(fetched)

\* C26: with a non-empty list and a limit that is None, negative, or positive
\* and at least the list's length, the loop works on the whole list: total is
\* the list's length, the videos handed to the pipeline are a prefix of the
\* whole list, and a batch that returned handed over every video.
C26_LimitProcessAll ==
    (bpc # "idle" /\ Len(fetched) > 0 /\ ProcessAll)
        => /\ videos = fetched
           /\ stats.total_videos = Len(fetched)
           /\ Len(passed) <= Len(fetched)
           /\ passed = SubSeq(fetched, 1, Len(passed))
           /\ batch_ret.kind = "returned" => passed = fetched

C26_Witness ==
    /\ batch_ret.kind = "returned"
    /\ limit = [some |-> TRUE, n |-> -1]
    /\ Len(fetched) = 2
    /\ passed = fetched
    /\ Len(all_subtitles) = 2

\* C27 (as claimed): a non-empty subtitles_raw.txt alone keeps the ASR step
\* from downloading audio, whatever the state of subtitles.txt.
C27_RawAloneReused ==
    ppc = "audio" => ~(base_dir.raw.some /\ Len(base_dir.raw.text) > 0)

\* subtitles_raw.txt and subtitles.txt both exist and are non-empty
BothTranscripts ==
    /\ base_dir.raw.some /\ Len(base_dir.raw.text) > 0
    /\ base_dir.corrected.some /\ Len(base_dir.corrected.text) > 0

\* C27 (amended): the ASR step skips the audio download and Whisper exactly
\* when subtitles_raw.txt and subtitles.txt both exist and are non-empty, and
\* then returns the corrected text under the corrected heading without any
\* call; with the corrected file missing or empty it downloads the audio
\* again, raw transcript or not.
C27_PairReused ==
    [][(ppc = "asr_check" /\ ppc' # "asr_check" /\ bpc' = "loop")
          => IF BothTranscripts
             THEN /\ ppc' = "returned"
                  /\ subtitles' = [some |-> TRUE,
                                   text |-> <<"## Whisper Transcript (Corrected)">>
                                              \o base_dir.corrected.text]
                  /\ calls' = calls
                  /\ base_dir' = base_dir
             ELSE /\ ppc' = "audio"
                  /\ calls' = calls]_vars

C27_Witness ==
    /\ ppc = "whisper"
    /\ Called({"yt-dlp audio", "yt-dlp audio --cookies"})
    /\ base_dir.raw = [some |-> TRUE, text |-> RawTranscript]
    /\ base_dir.corrected = [some |-> TRUE, text |-> << >>]

\* C28 (as claimed): once Whisper has been run for a video and the pipeline
\* has ended, by a return or by an error, temp_audio.m4a does not exist.
C28_AudioRemoved ==
    (Called({"whisper"}) /\ ppc \in {"returned", "raised"})
        => ~base_dir.audio.some

\* the first subtitle file of a directory, .vtt before .srt
FirstSubtitleFile(d) == IF d.vtt.some THEN d.vtt.text ELSE d.srt.text

HasSubtitleFile(d) == d.vtt.some \/ d.srt.some

\* C29: the scan of the directory calls no downloader; with a .vtt or .srt
\* file there it takes the contents of the first one (.vtt before .srt) as
\* they are and yt-dlp is not run; yt-dlp is run only from a directory without
\* such a file, and when it completes the directory is scanned again and the
\* first file's contents are taken as they are.
C29_DirectoryFirst ==
    [][/\ (ppc = "scan" /\ ppc' # "scan" /\ bpc' = "loop")
             => /\ calls' = Append(calls, "glob")
                /\ base_dir' = base_dir
                /\ IF HasSubtitleFile(base_dir)
                   THEN /\ subtitles' = [some |-> TRUE,
                                         text |-> FirstSubtitleFile(base_dir)]
                        /\ ppc' # "ytdlp_subs"
                   ELSE ppc' = "ytdlp_subs"
       /\ (ppc = "ytdlp_subs" /\ ppc' # "ytdlp_subs" /\ bpc' = "loop")
             => /\ ~HasSubtitleFile(base_dir)
                /\ calls'[Len(calls) + 1]
                      \in {"yt-dlp subtitles", "yt-dlp subtitles --cookies"}
                /\ (HasSubtitleFile(base_dir') /\ ppc' # "raised")
                      => subtitles' = [some |-> TRUE,
                                       text |-> FirstSubtitleFile(base_dir')]
       /\ (ppc # "returned" /\ ppc' = "returned"
              /\ ppc \in {"scan", "ytdlp_subs"})
             => subtitles' = [some |-> TRUE, text |-> FirstSubtitleFile(base_dir')]
      ]_vars

C29_Witness ==
    /\ ppc = "returned"
    /\ Called({"yt-dlp subtitles", "yt-dlp subtitles --cookies"})
    /\ base_dir.vtt.some
    /\ base_dir.srt.some
    /\ subtitles = [some |-> TRUE, text |-> VttText]

\* this step extracted secrets for provider b and did not get them into the
\* credentials file
SaveFailedFor(b) ==
    /\ IsCall("get_browser_cookies", b)
    /\ cred_log'.extractor
    /\ cred_log'.cookies # {}
    /\ ~RecordReplaced(b)

RecordBefore(p) == cred_file.creds[p]

RecordAfter(p) == cred_file'.creds[p]

HasRecordAfter(p) == cred_file'.exists /\ p \in DOMAIN cred_file'.creds

\* C32: load_cached_credentials never changes the credentials file; a
\* get_browser_cookies that returns None (extraction found nothing) leaves it
\* unchanged too, expired records included; a record disappears only in a
\* clear step, and changes only in a get_browser_cookies step for its own
\* provider whose extraction found secrets, to those secrets and the current
\* time.
C32_ReadNeverPurges ==
    [][/\ \A b \in Providers :
             /\ IsCall("load_cached_credentials", b) => cred_file' = cred_file
             /\ (IsCall("get_browser_cookies", b) /\ cred_log'.path = 0)
                   => cred_file' = cred_file
       /\ \A p \in Providers :
             (cred_file.exists /\ p \in DOMAIN cred_file.creds)
                 => /\ ~HasRecordAfter(p)
                          => (cred_log'.n # cred_log.n
                                /\ cred_log'.op = "clear_credentials")
                    /\ (HasRecordAfter(p) /\ RecordAfter(p) # RecordBefore(p))
                          => /\ IsCall("get_browser_cookies", p)
                             /\ cred_log'.extractor
                             /\ cred_log'.cookies # {}
                             /\ RecordAfter(p) = [cookies |-> cred_log'.cookies,
                                                  timestamp |-> now]]_vars

C32_Witness ==
    /\ cred_log.op = "get_browser_cookies"
    /\ cred_log.extractor
    /\ cred_log.path = 0
    /\ StaleRecord(cred_log.browser)
    /\ \E p \in Providers \ {cred_log.browser} : StaleRecord(p)

\* the in-memory cache names a cookie file for b that is gone
StaleEntry(b) ==
    b \in DOMAIN cookie_file_cache /\ ~tmpfiles[cookie_file_cache[b]].exists

\* this step's call returned a cookie file created in this step, which is the
\* in-memory entry of b and holds the given secrets
Regenerated(b, cookies) ==
    /\ cred_log'.path = Len(tmpfiles) + 1
    /\ Len(tmpfiles') = Len(tmpfiles) + 1
    /\ tmpfiles'[cred_log'.path].exists
    /\ tmpfiles'[cred_log'.path].lines
          = {c \in cookies : c[1] \in {"SESSDATA", "bili_jct", "buvid3"} /\ c[2] # ""}
    /\ b \in DOMAIN cookie_file_cache'
    /\ cookie_file_cache'[b] = cred_log'.path

\* C33 (as claimed): a get_browser_cookies call that finds the cached cookie
\* file of its provider gone always returns a new cookie file, and the
\* in-memory entry then names a file that exists.
C33_StaleAlwaysRegenerated ==
    [][\A b \in Providers :
          (IsCall("get_browser_cookies", b) /\ StaleEntry(b))
              => /\ cred_log'.path = Len(tmpfiles) + 1
                 /\ b \in DOMAIN cookie_file_cache'
                 /\ tmpfiles'[cookie_file_cache'[b]].exists]_vars

\* C33 (amended): a get_browser_cookies call that finds the cached cookie file
\* of its provider gone never returns that path. Unforced and with a record
\* of at most 30 days holding cookies, it returns a new file made from the
\* record without extracting. Otherwise it extracts: with secrets found it
\* returns a new file made from them; with none found it returns None,
\* creates no file, and the entry naming the missing file stays (unforced) or
\* is dropped (forced).
C33_StaleNeverReturned ==
    [][\A b \in Providers :
          (IsCall("get_browser_cookies", b) /\ StaleEntry(b))
              => /\ cred_log'.path # cookie_file_cache[b]
                 /\ IF ~cred_log'.force /\ FreshRecord(b)
                         /\ cred_file.creds[b].cookies # {}
                    THEN /\ ~cred_log'.extractor
                         /\ Regenerated(b, cred_file.creds[b].cookies)
                    ELSE /\ cred_log'.extractor
                         /\ cred_log'.cookies # {}
                               => Regenerated(b, cred_log'.cookies)
                         /\ cred_log'.cookies = {}
                               => /\ cred_log'.path = 0
                                  /\ tmpfiles' = tmpfiles
                                  /\ cred_file' = cred_file
                                  /\ IF cred_log'.force
                                     THEN b \notin DOMAIN cookie_file_cache'
                                     ELSE cookie_file_cache' = cookie_file_cache]_vars

C33_Witness ==
    /\ cred_log.op = "get_browser_cookies"
    /\ ~cred_log.force
    /\ ~cred_log.extractor
    /\ cred_log.path = 2
    /\ Len(tmpfiles) = 2
    /\ ~tmpfiles[1].exists
    /\ tmpfiles[2].exists
    /\ tmpfiles[2].lines = tmpfiles[1].lines
    /\ DOMAIN cookie_file_cache = {cred_log.browser}
    /\ cookie_file_cache[cred_log.browser] = 2

C36_FlagOnlyDuringRun ==
    /\ environ <=> bpc = "loop"
    /\ batch_ret.kind \in {"returned", "raised", "interrupted"} => ~environ

C36_Witness ==
    /\ bpc = "raised"
    /\ batch_ret.kind = "raised"
    /\ ~environ
    /\ Len(passed) = 2
    /\ Len(all_subtitles) = 1

\* videos the loop body is done with
Finished == Len(passed) - (IF ppc = "idle" THEN 0 ELSE 1)

\* C35: while the loop runs and when it has returned, videos_with_subtitles
\* is the sum of the api, yt-dlp and whisper counters, videos_with_subtitles
\* <= processed_videos <= total_videos, and the number of blocks is
\* videos_with_subtitles + failed, which is the number of videos the loop
\* body is done with.
C35_StatsConsistent ==
    (bpc = "loop" \/ (bpc = "returned" /\ "subtitle_sources" \in DOMAIN stats))
        => /\ stats.videos_with_subtitles
                 = stats.subtitle_sources["api"] + stats.subtitle_sources["yt-dlp"]
                     + stats.subtitle_sources["whisper"]
           /\ stats.videos_with_subtitles <= stats.processed_videos
           /\ stats.processed_videos <= stats.total_videos
           /\ stats.total_videos = Len(videos)
           /\ Len(all_subtitles)
                 = stats.videos_with_subtitles + stats.subtitle_sources["failed"]
           /\ Len(all_subtitles) = Finished
           /\ bpc = "returned" => batch_ret.stats = stats

C35_Witness ==
    /\ bpc = "returned"
    /\ "subtitle_sources" \in DOMAIN batch_ret.stats
    /\ batch_ret.stats.videos_with_subtitles = 1
    /\ batch_ret.stats.subtitle_sources["whisper"] = 1
    /\ batch_ret.stats.subtitle_sources["failed"] = 1
    /\ batch_ret.stats.processed_videos = 1
    /\ batch_ret.stats.total_videos = 2
    /\ Len(all_subtitles) = 2

\* C37: whenever get_video_text_content has returned, its subtitles field is
\* present and non-empty; so no block of the batch is the 'no subtitles'
\* placeholder, and the failed counter equals the number of failure blocks,
\* each of which carries the message of a non-authentication error.
C37_ReturnHasSubtitles ==
    /\ ppc = "returned"
          => /\ subtitles.some
             /\ Len(subtitles.text) > 0
             /\ subtitles.text # <<"">>
    /\ \A k \in 1..Len(all_subtitles) :
          /\ all_subtitles[k].kind \in {"subtitles", "failed"}
          /\ all_subtitles[k].kind = "failed"
                => /\ Len(all_subtitles[k].body) > 0
                   /\ \A i \in 1..Len(all_subtitles[k].body) :
                         all_subtitles[k].body[i]
                             \notin LinesContaining("Authentication required")
    /\ "subtitle_sources" \in DOMAIN stats
          => stats.subtitle_sources["failed"]
                = Cardinality({k \in 1..Len(all_subtitles) :
                                  all_subtitles[k].kind = "failed"})

C37_Witness ==
    /\ ppc = "returned"
    /\ base_dir.vtt = [some |-> TRUE, text |-> << >>]
    /\ Called({"yt-dlp subtitles", "yt-dlp subtitles --cookies"})
    /\ Called({"whisper"})
    /\ subtitles.some
    /\ Len(subtitles.text) > 1
    /\ Len(all_subtitles) = 1
    /\ all_subtitles[1].kind = "failed"

\* subtitles.txt is a non-empty copy of subtitles_raw.txt
RawCopied(d) ==
    d.raw.some /\ Len(d.raw.text) > 0 /\ d.corrected = d.raw

\* C38: a run whose correction call fails returns the raw transcript under
\* the heading '## Whisper Transcript' and leaves subtitles.txt a copy of
\* subtitles_raw.txt, a directory later runs start from; a run that reaches
\* the ASR step on such a directory
\* returns the same body under '## Whisper Transcript (Corrected)' at once,
\* and no step of a run on such a directory enters the audio download,
\* Whisper or the correction call.
C38_RawRelabelled ==
    [][/\ (ppc = "llm" /\ ppc' = "returned"
              /\ subtitles'.text[1] = "## Whisper Transcript")
             => /\ subtitles'.text = <<"## Whisper Transcript">> \o base_dir.raw.text
                /\ base_dir'.raw = base_dir.raw
                /\ RawCopied(base_dir')
                /\ [base_dir' EXCEPT !.vtt = NoText] \in InitialDirs
       /\ (ppc = "asr_check" /\ ppc' # "asr_check" /\ bpc' = "loop"
              /\ RawCopied(base_dir))
             => /\ ppc' = "returned"
                /\ subtitles'.text = <<"## Whisper Transcript (Corrected)">>
                                        \o base_dir.raw.text
                /\ calls' = calls
                /\ \A i \in 1..Len(calls') : calls'[i] # "llm"
                /\ base_dir' = base_dir
       /\ (RawCopied(base_dir) /\ ppc # "llm")
             => ppc' \notin {"audio", "whisper", "llm"}]_vars

C38_Witness ==
    /\ ppc = "returned"
    /\ RawCopied(base_dir)
    /\ subtitles = [some |-> TRUE,
                    text |-> <<"## Whisper Transcript (Corrected)">>
                               \o base_dir.raw.text]
    /\ ~Called({"llm", "whisper"})
    /\ Called({"glob"})

\* the raw transcript is missing or has no text but blank lines
NoRawText(d) ==
    ~d.raw.some \/ \A i \in 1..Len(d.raw.text) : d.raw.text[i] = ""

\* C39: retry_llm_processing raises without a call of the correction
\* backend when subtitles_raw.txt is missing or holds nothing but blank
\* lines; every raise, that of a failed backend call included, leaves
\* subtitles.txt and subtitles_corrections.txt as they were; subtitles.txt
\* changes only in a step that called the backend and returns, and then it
\* holds the text returned.
C39_RetryFailuresKeepFiles ==
    [][/\ (ppc = "retry" /\ ppc' # "retry")
             => /\ base_dir' = base_dir
                /\ calls' = << >>
                /\ IF NoRawText(base_dir)
                   THEN ppc' = "raised"
                   ELSE ppc' = "retry_llm"
       /\ (ppc = "retry_llm" /\ ppc' = "raised")
             => /\ base_dir' = base_dir
                /\ subtitles' = subtitles
       /\ (ppc \in {"retry", "retry_llm"}
              /\ (base_dir'.corrected # base_dir.corrected
                     \/ base_dir'.corrections # base_dir.corrections))
             => /\ ppc = "retry_llm"
                /\ ppc' = "returned"
                /\ calls' = <<"llm">>
                /\ base_dir'.corrected = subtitles'
                /\ base_dir'.raw = base_dir.raw]_vars

C39_Witness ==
    /\ fn = "retry_llm_processing"
    /\ ppc = "raised"
    /\ calls = <<"llm">>
    /\ perr = <<"Connection error.">>
    /\ base_dir.corrected = [some |-> TRUE, text |-> <<"old fixed words">>]
    /\ base_dir.corrections.some

\* C40: a save that writes the file for provider b leaves under b exactly the
\* cookies just extracted, none of the old record's secrets that are not
\* among them, with the time of the save; every other provider's record,
\* expired or not, is in the file as it was, and no record is added for a
\* provider that had none.
C40_SaveReplacesOneRecord ==
    [][\A b \in Providers :
          (/\ IsCall("get_browser_cookies", b)
           /\ cred_log'.extractor
           /\ cred_log'.cookies # {}
           /\ cred_file' # cred_file)
              => /\ cred_file'.exists
                 /\ b \in DOMAIN cred_file'.creds
                 /\ cred_file'.creds[b].cookies = cred_log'.cookies
                 /\ cred_file'.creds[b].timestamp = now
                 /\ (cred_file.exists /\ b \in DOMAIN cred_file.creds)
                       => \A c \in cred_file.creds[b].cookies \ cred_log'.cookies :
                             c \notin cred_file'.creds[b].cookies
                 /\ \A p \in Providers \ {b} :
                       IF cred_file.exists /\ p \in DOMAIN cred_file.creds
                       THEN /\ p \in DOMAIN cred_file'.creds
                            /\ cred_file'.creds[p] = cred_file.creds[p]
                       ELSE p \notin DOMAIN cred_file'.creds]_vars

C40_Witness ==
    /\ cred_log.op = "get_browser_cookies"
    /\ cred_log.extractor
    /\ cred_log.browser = "chrome"
    /\ cred_log.cookies = {<<"SESSDATA", "s2">>}
    /\ cred_file.exists
    /\ DOMAIN cred_file.creds = {"chrome", "firefox"}
    /\ cred_file.creds["chrome"] = [cookies |-> {<<"SESSDATA", "s2">>},
                                    timestamp |-> 31]
    /\ cred_file.creds["firefox"].timestamp = 0
    /\ now = 31

====
